---- MODULE Spec2Model ----
(***************************************************************************)
(* Best Agent API (src/api.js): the token cache, the table query client,   *)
(* the package lookup, the status engine determineStatus and the HTTP      *)
(* handlers that compose them.                                             *)
(*                                                                         *)
(* Conventions.  A JavaScript value that may be null/undefined is an       *)
(* optional: Null (the empty tuple) or Some(v) (a one-element tuple).      *)
(* A string the code inspects character by character (tm, pkg_code2) is a  *)
(* sequence of one-character strings.  Time is counted in seconds          *)
(* (Date.now()/1000), so the 60000 ms buffer is 60 and expires_in needs no *)
(* scaling.                                                                *)
(***************************************************************************)
EXTENDS Integers, Sequences, FiniteSets, TLC

VARIABLES
    customer,       \* determineStatus: the customer record under evaluation
    packageInfo,    \* determineStatus: the package info (or Null)
    statusInfo,     \* determineStatus: the returned object (Null before the call)
    returned,       \* the status codes determineStatus has returned so far
    caspioToken,    \* module-level token cache: Null or Some(access_token)
    tokenExpiry,    \* module-level token cache: Null or Some(expiry time)
    now,            \* Date.now(), in seconds
    exchanges,      \* the provider's successful exchange responses, in order
    req             \* the HTTP requests: each one's handler, inputs, locals and response

engineVars == <<customer, packageInfo, statusInfo, returned>>
serverVars == <<caspioToken, tokenExpiry, now, exchanges, req>>
vars == <<customer, packageInfo, statusInfo, returned, caspioToken, tokenExpiry, now, exchanges, req>>

(***************************************************************************)
(* JavaScript values                                                       *)
(***************************************************************************)
Null == <<>>
Some(v) == <<v>>

\* truthiness of an optional number: null, undefined and 0 are falsy
TruthyNum(x) == x # Null /\ x[1] # 0
\* truthiness of an optional string: null, undefined and '' are falsy
TruthyStr(x) == x # Null /\ x[1] # <<>>
\* truthiness of an optional date string (a set date is a non-empty string)
TruthyDate(x) == x # Null
\* `x || 0` on an optional number
OrZero(x) == IF TruthyNum(x) THEN x[1] ELSE 0
\* ToNumber of an optional number in a relational comparison: null -> 0
ToNumber(x) == IF x = Null THEN 0 ELSE x[1]

Max(a, b) == IF a >= b THEN a ELSE b

\* String.prototype.trim on a character sequence
RECURSIVE TrimStart(_)
TrimStart(s) == IF s # <<>> /\ Head(s) = " " THEN TrimStart(Tail(s)) ELSE s
RECURSIVE TrimEnd(_)
TrimEnd(s) == IF s # <<>> /\ s[Len(s)] = " " THEN TrimEnd(SubSeq(s, 1, Len(s) - 1)) ELSE s
Trim(s) == TrimEnd(TrimStart(s))

\* String.prototype.toUpperCase on a character sequence
UpperChar(c) ==
    CASE c = "a" -> "A" [] c = "b" -> "B" [] c = "c" -> "C" [] c = "e" -> "E"
      [] c = "k" -> "K" [] c = "m" -> "M" [] c = "r" -> "R" [] c = "s" -> "S"
      [] c = "x" -> "X" [] c = "z" -> "Z" [] OTHER -> c
toUpperCase(s) == [i \in 1..Len(s) |-> UpperChar(s[i])]

\* String.prototype.startsWith with a two-character prefix
startsWith(s, prefix) == Len(s) >= Len(prefix) /\ SubSeq(s, 1, Len(prefix)) = prefix

(***************************************************************************)
(* Dates                                                                   *)
(***************************************************************************)
DaySeconds == 86400
\* the process clock when determineStatus runs: day Today, 09:00
Today == 10
NowSeconds == Today * DaySeconds + 9 * 3600

\* Date.prototype.setHours(0, 0, 0, 0)
Midnight(t) == t - (t % DaySeconds)
\* Math.ceil(a / b) for b > 0
CeilDiv(a, b) == -((-a) \div b)

daysUntilDate(dateString, nowT) ==
    IF ~TruthyDate(dateString) THEN Null
    ELSE Some(CeilDiv(Midnight(dateString[1]) - Midnight(nowT), DaySeconds))

(***************************************************************************)
(* Status determination                                                    *)
(***************************************************************************)
ONLINE_SCHEDULING_PACKAGES ==
    { <<"E","C","R","A">>, <<"E","C","R","B">>, <<"E","C","R","D">>, <<"E","K","C","A">> }

\* isPhoneSchedulingPackage without the EZ prefix
isPhoneSchedulingPackageNoEZ(pkgCode) ==
    IF ~TruthyStr(pkgCode) THEN FALSE
    ELSE LET code == toUpperCase(pkgCode[1])
         IN  \/ code = <<"E","M">>
             \/ code = <<"E","S">>
             \/ startsWith(code, <<"E","X">>)

isPhoneSchedulingPackage(pkgCode) ==
    IF ~TruthyStr(pkgCode) THEN FALSE
    ELSE LET code == toUpperCase(pkgCode[1])
         IN  \/ code = <<"E","M">>
             \/ code = <<"E","S">>
             \/ startsWith(code, <<"E","X">>)
             \/ startsWith(code, <<"E","Z">>)

isOnlineSchedulingPackage(pkgCode) ==
    TruthyStr(pkgCode) /\ toUpperCase(pkgCode[1]) \in ONLINE_SCHEDULING_PACKAGES

\* the reconciliation with the standard case testing totalPaid === expectedTotal
depositsCompleteExact(c, p) ==
    LET expectedRefDep  == IF p # Null THEN p[1].ref_dep ELSE 0
        expectedConfDep == IF p # Null THEN p[1].deposit ELSE 0
        paidValDep  == OrZero(c.val_dep)
        paidConfDep == OrZero(c.conf_deposit)
        totalPaid   == paidValDep + paidConfDep
    IN  IF p # Null
        THEN IF totalPaid = p[1].total_expected THEN TRUE
             ELSE IF expectedRefDep > 0 /\ expectedConfDep = 0
                  THEN paidValDep >= expectedRefDep \/ paidConfDep >= expectedRefDep
             ELSE IF expectedConfDep > 0 /\ expectedRefDep = 0
                  THEN paidValDep >= expectedConfDep \/ paidConfDep >= expectedConfDep
             ELSE FALSE
        ELSE paidValDep > 0 \/ paidConfDep > 0

\* the reconciliation with the single-deposit branches accepting any payment in either field
depositsCompleteAnyPaid(c, p) ==
    LET expectedRefDep  == IF p # Null THEN p[1].ref_dep ELSE 0
        expectedConfDep == IF p # Null THEN p[1].deposit ELSE 0
        paidValDep  == OrZero(c.val_dep)
        paidConfDep == OrZero(c.conf_deposit)
        totalPaid   == paidValDep + paidConfDep
    IN  IF p # Null
        THEN IF totalPaid >= p[1].total_expected THEN TRUE
             ELSE IF expectedRefDep > 0 /\ expectedConfDep = 0
                  THEN paidValDep > 0 \/ paidConfDep > 0
             ELSE IF expectedConfDep > 0 /\ expectedRefDep = 0
                  THEN paidValDep > 0 \/ paidConfDep > 0
             ELSE FALSE
        ELSE paidValDep > 0 \/ paidConfDep > 0

\* the deposit reconciliation of determineStatus
depositsCompleteOf(c, p) ==
    LET expectedRefDep  == IF p # Null THEN p[1].ref_dep ELSE 0
        expectedConfDep == IF p # Null THEN p[1].deposit ELSE 0
        paidValDep  == OrZero(c.val_dep)
        paidConfDep == OrZero(c.conf_deposit)
        totalPaid   == paidValDep + paidConfDep
    IN  IF p # Null
        THEN IF totalPaid >= p[1].total_expected THEN TRUE
             ELSE IF expectedRefDep > 0 /\ expectedConfDep = 0
                  THEN paidValDep >= expectedRefDep \/ paidConfDep >= expectedRefDep
             ELSE IF expectedConfDep > 0 /\ expectedRefDep = 0
                  THEN paidValDep >= expectedConfDep \/ paidConfDep >= expectedConfDep
             ELSE FALSE
        ELSE paidValDep > 0 \/ paidConfDep > 0

remainingOf(c, p) ==
    IF p # Null
    THEN Some(Max(0, p[1].total_expected - (OrZero(c.val_dep) + OrZero(c.conf_deposit))))
    ELSE Null

\* the blank test without the trim: (!tm || tm === '')
tmEmpty(tm) == ~TruthyStr(tm) \/ tm[1] = <<>>

\* tm is blank: (!tm || tm.trim() === '')
tmBlank(tm) == ~TruthyStr(tm) \/ Trim(tm[1]) = <<>>

\* the messages of rules 7 and 10, by scheduling channel
ReadyMessage(online, phone) ==
    IF online THEN "Great news! Your deposit is all paid up and you are ready to select your travel dates. You can login to your activatemytrip.com account to select your dates."
    ELSE IF phone THEN "Great news! Your deposit is all paid up and you are ready to select your travel dates. Would you like me to transfer you to scheduling?"
    ELSE "Great news! Your deposit is all paid up and you are ready to select your travel dates."

DepositMessage(online, phone) ==
    IF online THEN "I see you have activated your vacation package. You can login to your activatemytrip.com account to select your travel dates and pay your deposit with a credit card."
    ELSE IF phone THEN "I see you have activated your vacation package. Would you like me to transfer you to scheduling so you can select your dates and pay the deposit over the phone?"
    ELSE "I see you have activated your vacation package. It looks like we are just waiting on your deposit."

\* rule 1 tested only for records without a travel date
RefundPendingNoTravelDate(c) ==
    /\ TruthyNum(c.cash_back_amt) /\ c.cash_back_amt[1] > 0 /\ ~TruthyDate(c.Fnl_Doc_MO_Date)
    /\ ~TruthyDate(c.asgn_trv_dt)

\* rule 1: cash_back_amt && cash_back_amt > 0 && !Fnl_Doc_MO_Date
RefundPending(c) ==
    TruthyNum(c.cash_back_amt) /\ c.cash_back_amt[1] > 0 /\ ~TruthyDate(c.Fnl_Doc_MO_Date)

\* rule 2 with a two-week window after the travel date
TripCompleteAfter14(c, daysUntilTravel) ==
    TruthyDate(c.Fnl_Doc_MO_Date) \/ (daysUntilTravel # Null /\ ToNumber(daysUntilTravel) < -14)

\* rule 2: Fnl_Doc_MO_Date || (daysUntilTravel !== null && daysUntilTravel < -7)
TripComplete(c, daysUntilTravel) ==
    TruthyDate(c.Fnl_Doc_MO_Date) \/ (daysUntilTravel # Null /\ ToNumber(daysUntilTravel) < -7)

\* rule 3
TravelPending(c, daysUntilTravel) ==
    /\ TruthyDate(c.date_htl_book) /\ TruthyDate(c.date_agncy_book)
    /\ daysUntilTravel # Null /\ ToNumber(daysUntilTravel) <= 14

\* rule 4
BookingPending(c, daysUntilTravel) ==
    TruthyDate(c.date_print_enc) /\ daysUntilTravel # Null /\ ToNumber(daysUntilTravel) <= 45

\* rule 5
TravelRepAssigned(c, daysUntilTravel) ==
    /\ TruthyStr(c.tm) /\ Trim(c.tm[1]) # <<>>
    /\ daysUntilTravel # Null /\ ToNumber(daysUntilTravel) <= 75

\* rule 6
WaitingForTravelRep(c, depositsComplete, daysUntilTravel) ==
    /\ depositsComplete /\ TruthyDate(c.asgn_trv_dt) /\ tmBlank(c.tm)
    /\ daysUntilTravel # Null /\ ToNumber(daysUntilTravel) <= 75

\* rule 7
ReadyToSchedule(c, depositsComplete) ==
    depositsComplete /\ ~TruthyDate(c.asgn_trv_dt)

\* rule 8 (daysUntilTravel > 75 is not guarded against null)
DatesScheduled(c, depositsComplete, daysUntilTravel) ==
    /\ depositsComplete /\ TruthyDate(c.asgn_trv_dt) /\ tmBlank(c.tm)
    /\ c.conf_valid_code = Some("CONFIRM") /\ ToNumber(daysUntilTravel) > 75

\* rule 9 without its test of asgn_trv_dt
ScheduledNotConfirmedAnyDate(c) ==
    c.conf_valid_code # Some("CONFIRM") /\ c.decReady # Some(TRUE)

\* rule 9
ScheduledNotConfirmed(c) ==
    TruthyDate(c.asgn_trv_dt) /\ c.conf_valid_code # Some("CONFIRM") /\ c.decReady # Some(TRUE)

\* rule 9 returning its labels as status codes
NotConfirmedLabel(daysUntilTravel) ==
    IF ToNumber(daysUntilTravel) <= 75
    THEN [status |-> "Needs Rescheduling", statusLabel |-> "Needs Rescheduling",
          agentMessage |-> "Your scheduled dates may no longer be available. Would you like me to transfer you to reschedule?"]
    ELSE [status |-> "Needs Confirmation", statusLabel |-> "Needs Confirmation",
          agentMessage |-> "Your dates are scheduled but not yet confirmed. Would you like me to transfer you to confirm?"]

\* the two outcomes of rule 9 (daysUntilTravel <= 75 is not guarded against null)
NotConfirmedOutcome(daysUntilTravel) ==
    IF ToNumber(daysUntilTravel) <= 75
    THEN [status |-> "Scheduled Not Confirmed - Must Reschedule", statusLabel |-> "Needs Rescheduling",
          agentMessage |-> "Your scheduled dates may no longer be available. Would you like me to transfer you to reschedule?"]
    ELSE [status |-> "Scheduled Not Confirmed - Can Confirm", statusLabel |-> "Needs Confirmation",
          agentMessage |-> "Your dates are scheduled but not yet confirmed. Would you like me to transfer you to confirm?"]

\* the ordered rule list: [status, statusLabel, agentMessage] of the first rule that matches
selectStatus(c, depositsComplete, daysUntilTravel, online, phone) ==
    IF RefundPending(c)
    THEN [status |-> "Refund Pending", statusLabel |-> "Refund Pending",
          agentMessage |-> "I see there is a pending matter on your account."]
    ELSE IF TripComplete(c, daysUntilTravel)
    THEN [status |-> "Trip Complete", statusLabel |-> "Trip Complete",
          agentMessage |-> "I can see you have already traveled with us."]
    ELSE IF TravelPending(c, daysUntilTravel)
    THEN [status |-> "Travel Pending", statusLabel |-> "Travel Pending",
          agentMessage |-> "Your trip is all booked and your itinerary should have been sent."]
    ELSE IF BookingPending(c, daysUntilTravel)
    THEN [status |-> "Booking Pending", statusLabel |-> "Booking Pending",
          agentMessage |-> "Your booking is being finalized. Expect a call from our booking agent 7-14 days before your trip."]
    ELSE IF TravelRepAssigned(c, daysUntilTravel)
    THEN [status |-> "Travel Rep Assigned", statusLabel |-> "Travel Rep Assigned",
          agentMessage |-> "Your travel rep has been assigned. Be sure to answer calls from the 805 area code."]
    ELSE IF WaitingForTravelRep(c, depositsComplete, daysUntilTravel)
    THEN [status |-> "Waiting For Travel Rep", statusLabel |-> "Waiting for Travel Rep",
          agentMessage |-> "Your travel dates are set and you are waiting for a travel rep to be assigned."]
    ELSE IF ReadyToSchedule(c, depositsComplete)
    THEN [status |-> "Ready to Schedule", statusLabel |-> "Ready to Schedule",
          agentMessage |-> ReadyMessage(online, phone)]
    ELSE IF DatesScheduled(c, depositsComplete, daysUntilTravel)
    THEN [status |-> "Dates Scheduled", statusLabel |-> "Dates Scheduled",
          agentMessage |-> "Your travel dates are all set for ${asgn_trv_dt}. A travel rep will be assigned 45-75 days before your trip."]
    ELSE IF ScheduledNotConfirmed(c)
    THEN NotConfirmedOutcome(daysUntilTravel)
    ELSE [status |-> "Deposit Needed", statusLabel |-> "Deposit Needed",
          agentMessage |-> DepositMessage(online, phone)]

\* rules 1-7 have all failed, so the else-if chain goes on to rule 8
reachesRule8(c, depositsComplete, daysUntilTravel) ==
    /\ ~RefundPending(c) /\ ~TripComplete(c, daysUntilTravel)
    /\ ~TravelPending(c, daysUntilTravel) /\ ~BookingPending(c, daysUntilTravel)
    /\ ~TravelRepAssigned(c, daysUntilTravel)
    /\ ~WaitingForTravelRep(c, depositsComplete, daysUntilTravel)
    /\ ~ReadyToSchedule(c, depositsComplete)

\* rule 8 evaluates daysUntilTravel > 75: every operand of && before it is truthy
comparesInRule8(c, depositsComplete, daysUntilTravel) ==
    /\ reachesRule8(c, depositsComplete, daysUntilTravel)
    /\ depositsComplete /\ TruthyDate(c.asgn_trv_dt) /\ tmBlank(c.tm)
    /\ c.conf_valid_code = Some("CONFIRM")

\* rule 9 evaluates daysUntilTravel <= 75: rule 8 has failed and rule 9's condition holds
comparesInRule9(c, depositsComplete, daysUntilTravel) ==
    /\ reachesRule8(c, depositsComplete, daysUntilTravel)
    /\ ~DatesScheduled(c, depositsComplete, daysUntilTravel)
    /\ ScheduledNotConfirmed(c)

determineStatus(c, p, nowT) ==
    LET isOnlineScheduling == isOnlineSchedulingPackage(c.pkg_code2)
        isPhoneScheduling  == isPhoneSchedulingPackage(c.pkg_code2)
        paidValDep  == OrZero(c.val_dep)
        paidConfDep == OrZero(c.conf_deposit)
        depositsComplete == depositsCompleteOf(c, p)
        daysUntilTravel  == IF TruthyDate(c.asgn_trv_dt) THEN daysUntilDate(c.asgn_trv_dt, nowT) ELSE Null
        sel == selectStatus(c, depositsComplete, daysUntilTravel, isOnlineScheduling, isPhoneScheduling)
    IN  [ status       |-> sel.status,
          statusLabel  |-> sel.statusLabel,
          agentMessage |-> sel.agentMessage,
          deposits     |-> [ status            |-> IF depositsComplete THEN "complete" ELSE "pending",
                             val_dep_paid      |-> paidValDep,
                             conf_deposit_paid |-> paidConfDep,
                             total_paid        |-> paidValDep + paidConfDep,
                             refundable_deposit_required |->
                                 IF p # Null /\ p[1].ref_dep # 0 THEN Some(p[1].ref_dep) ELSE Null,
                             tax_deposit_required |->
                                 IF p # Null /\ p[1].deposit # 0 THEN Some(p[1].deposit) ELSE Null,
                             expected_deposit  |-> IF p # Null THEN Some(p[1].total_expected) ELSE Null,
                             remaining         |-> remainingOf(c, p),
                             complete          |-> depositsComplete ],
          daysUntilTravel    |-> daysUntilTravel,
          isOnlineScheduling |-> isOnlineScheduling,
          isPhoneScheduling  |-> isPhoneScheduling ]

(***************************************************************************)
(* Inputs of the status engine                                             *)
(***************************************************************************)
\* the largest paid amount and the largest required amount (in deposit units)
MaxPaid == 2
MaxRequired == 2

\* a date string `offset` days after Today, at hour `hour`
DateAt(offset, hour) == (Today + offset) * DaySeconds + hour * 3600

\* travel dates on both sides of every threshold of the rule list (-7, 0, 14, 45, 75)
TravelDates ==
    { Some(DateAt(o, 0)) : o \in {-8, -7, -1, 0, 14, 15, 45, 46, 75, 76, 100} }
        \cup { Some(DateAt(14, 23)) }
SomeDate == Some(DateAt(-30, 0))

\* paid amounts: absent, a negative adjustment, and 0..MaxPaid
PaidAmounts == {Null} \cup { Some(n) : n \in -1..MaxPaid }

\* package info as getPackageFromDestsel builds it
PackageOf(refDeposit, confDeposit) ==
    [ found |-> TRUE, ref_dep |-> refDeposit, deposit |-> confDeposit,
      total_expected |-> refDeposit + confDeposit ]
PackageInfos ==
    {Null} \cup { Some(PackageOf(r, d)) : r \in 0..MaxRequired, d \in 0..MaxRequired }

TmValues == { Null, Some(<<>>), Some(<<" ">>), Some(<<"B", "o">>), Some(<<" ", "B">>) }
PkgCodes ==
    { Null, Some(<<"E","M">>), Some(<<"e","m">>), Some(<<"E","S">>), Some(<<"E","X","A">>),
      Some(<<"E","Z","B">>), Some(<<"E","C","R","A">>), Some(<<"A","B">>) }

\* every combination of the fields the rule list reads, over both outcomes of the
\* deposit reconciliation with and without package info
RuleInputs ==
    [ val_dep : {Some(0), Some(1)}, conf_deposit : {Null},
      asgn_trv_dt : {Null} \cup TravelDates, tm : TmValues,
      conf_valid_code : {Null, Some("CONFIRM")},
      cash_back_amt : {Null, Some(0), Some(1)},
      Fnl_Doc_MO_Date : {Null, SomeDate}, date_print_enc : {Null, SomeDate},
      decReady : {Null, Some(TRUE)},
      date_htl_book : {Null, SomeDate}, date_agncy_book : {Null, SomeDate},
      pkg_code2 : {Null, Some(<<"E","M">>), Some(<<"E","C","R","A">>)} ]
        \X {Null, Some(PackageOf(1, 0))}

\* every combination of paid and required amounts
DepositInputs ==
    [ val_dep : PaidAmounts, conf_deposit : PaidAmounts,
      asgn_trv_dt : {Null, Some(DateAt(14, 0)), Some(DateAt(100, 0))},
      tm : {Null, Some(<<"B", "o">>)},
      conf_valid_code : {Null, Some("CONFIRM")},
      cash_back_amt : {Null}, Fnl_Doc_MO_Date : {Null}, date_print_enc : {Null},
      decReady : {Null}, date_htl_book : {Null}, date_agncy_book : {Null},
      pkg_code2 : {Null} ]
        \X PackageInfos

\* every package code
ChannelInputs ==
    [ val_dep : {Some(0), Some(1)}, conf_deposit : {Some(0)},
      asgn_trv_dt : {Null, Some(DateAt(100, 0))}, tm : {Null},
      conf_valid_code : {Null}, cash_back_amt : {Null, Some(1)},
      Fnl_Doc_MO_Date : {Null, SomeDate}, date_print_enc : {Null},
      decReady : {Null}, date_htl_book : {Null}, date_agncy_book : {Null},
      pkg_code2 : PkgCodes ]
        \X {Null, Some(PackageOf(1, 0))}

\* a record with only the given fields set
BlankRecord ==
    [ val_dep |-> Null, conf_deposit |-> Null, asgn_trv_dt |-> Null, tm |-> Null,
      conf_valid_code |-> Null, cash_back_amt |-> Null, Fnl_Doc_MO_Date |-> Null,
      date_print_enc |-> Null, decReady |-> Null, date_htl_book |-> Null,
      date_agncy_book |-> Null, pkg_code2 |-> Null ]

\* one record per outcome of the rule list
Scenarios ==
    { <<[BlankRecord EXCEPT !.cash_back_amt = Some(1)], Null>>,
      <<[BlankRecord EXCEPT !.Fnl_Doc_MO_Date = SomeDate], Null>>,
      <<[BlankRecord EXCEPT !.asgn_trv_dt = Some(DateAt(14, 0)), !.date_htl_book = SomeDate,
                            !.date_agncy_book = SomeDate], Null>>,
      <<[BlankRecord EXCEPT !.asgn_trv_dt = Some(DateAt(45, 0)), !.date_print_enc = SomeDate], Null>>,
      <<[BlankRecord EXCEPT !.asgn_trv_dt = Some(DateAt(75, 0)), !.tm = Some(<<"B", "o">>)], Null>>,
      <<[BlankRecord EXCEPT !.asgn_trv_dt = Some(DateAt(75, 0)), !.val_dep = Some(1)], Null>>,
      <<[BlankRecord EXCEPT !.val_dep = Some(1), !.conf_deposit = Some(0),
                            !.pkg_code2 = Some(<<"E","M">>)], Some(PackageOf(1, 0))>>,
      <<[BlankRecord EXCEPT !.asgn_trv_dt = Some(DateAt(100, 0)), !.val_dep = Some(1),
                            !.conf_valid_code = Some("CONFIRM")], Null>>,
      <<[BlankRecord EXCEPT !.asgn_trv_dt = Some(DateAt(75, 0))], Null>>,
      <<[BlankRecord EXCEPT !.asgn_trv_dt = Some(DateAt(76, 0))], Null>>,
      <<[BlankRecord EXCEPT !.pkg_code2 = Some(<<"E","C","R","A">>)], Some(PackageOf(1, 1))>> }

(***************************************************************************)
(* The server: token cache, table query client, package lookup, handlers   *)
(***************************************************************************)
\* concurrent callers of queryCaspioTable, successful exchanges the provider grants,
\* clock ticks, rows a customer query returns
MaxCallers == 2
MaxExchanges == 2
MaxTicks == 3
MaxRecords == 2
\* seconds per clock tick
ClockStep == 30
\* the 60000 ms safety margin of tokenExpiry
BufferSeconds == 60

\* expires_in of an exchange response: a token expired when stored, and one that
\* stays valid for two ticks
ExpiresIn == { BufferSeconds, BufferSeconds + 2 * ClockStep }

GetStatus == "GET /api/customer/status"
StatusById == "POST /api/customer/status-by-id"
PhoneLookup == "POST /api/rims/phone-lookup"
RimsStatus == "POST /api/rims/customer-status"
Handlers == { GetStatus, StatusById, PhoneLookup, RimsStatus }

\* rows of RIMS_DATA: the fields determineStatus reads, vac_id and val_entered_on
StoreRecord(vac, entered, code, valDep, travel, confirm) ==
    [ vac_id |-> vac, val_entered_on |-> entered,
      val_dep |-> valDep, conf_deposit |-> Null, asgn_trv_dt |-> travel, tm |-> Null,
      conf_valid_code |-> confirm, cash_back_amt |-> Null, Fnl_Doc_MO_Date |-> Null,
      date_print_enc |-> Null, decReady |-> Null, date_htl_book |-> Null,
      date_agncy_book |-> Null, pkg_code2 |-> code ]

StoreRecords ==
    { StoreRecord(1, Null, Some(<<"E","M">>), Some(1), Null, Null),
      StoreRecord(2, Some(DateAt(-5, 0)), Null, Some(1), Some(DateAt(100, 0)), Some("CONFIRM")),
      StoreRecord(3, Some(DateAt(-7, 0)), Some(<<"E","C","R","A">>), Null, Null, Null) }

RECURSIVE SeqsOfLen(_, _)
SeqsOfLen(S, n) ==
    IF n = 0 THEN { <<>> }
    ELSE { Append(q, x) : q \in SeqsOfLen(S, n - 1), x \in S }

Distinct(q) == \A i, j \in 1..Len(q) : i # j => q[i] # q[j]

\* what a customer query can return: up to MaxRecords distinct rows, in any order
CustomerResults ==
    UNION { { q \in SeqsOfLen(StoreRecords, n) : Distinct(q) } : n \in 0..MaxRecords }

\* what a destsel query can return: no row, or a row with its deposit columns
PackageResults ==
    { <<>>, << [ref_dep |-> Some(2), deposit |-> Null] >>, << [ref_dep |-> Some(1), deposit |-> Some(1)] >> }

\* a request that has not arrived yet
IdleRequest ==
    [ handler |-> "", phone |-> Null, vac_id |-> Null, pkg_code2 |-> Null,
      pc |-> "idle", stage |-> "", exchanged |-> 0, data |-> Null, token |-> Null,
      results |-> <<>>, customer |-> Null, lookup |-> "", determined |-> FALSE,
      error |-> Null, response |-> Null ]

\* the module-level state after start-up
CacheEmpty ==
    /\ caspioToken = Null
    /\ tokenExpiry = Null
    /\ now = NowSeconds
    /\ exchanges = <<>>

ServerIdle == CacheEmpty /\ req = [r \in {1} |-> IdleRequest]

\* res.json(...) with the fields a handler leaves out absent
NoResponse ==
    [ http |-> 200, found |-> FALSE, status |-> Null, status_label |-> Null,
      agent_message |-> Null, error |-> Null, message |-> Null,
      multiple_records |-> FALSE, record_count |-> Null, all_records |-> Null,
      most_recent |-> Null, vac_id |-> Null, deposits |-> Null, package |-> Null ]

Respond(rq, body) == [rq EXCEPT !.pc = "done", !.response = Some(body)]

\* ---- getCaspioToken ----
\* the cache check with Date.now() <= tokenExpiry
CacheValidInclusive(tok, expiry, t) == tok # Null /\ TruthyNum(expiry) /\ t <= expiry[1]

\* caspioToken && tokenExpiry && Date.now() < tokenExpiry
CacheValid(tok, expiry, t) == tok # Null /\ TruthyNum(expiry) /\ t < expiry[1]

\* the expiry without the safety margin
ExpiryNoBuffer(t, d) == t + d.expires_in

\* Date.now() + (data.expires_in * 1000) - 60000
ExpiryOf(t, d) == t + d.expires_in - BufferSeconds

\* ---- sorting by val_entered_on ----
\* a missing val_entered_on taken as the current time
enteredTimeOrNow(c) == IF TruthyDate(c.val_entered_on) THEN c.val_entered_on[1] ELSE NowSeconds

\* a.val_entered_on ? new Date(a.val_entered_on) : new Date(0)
enteredTime(c) == IF TruthyDate(c.val_entered_on) THEN c.val_entered_on[1] ELSE 0

\* the comparator: dateB - dateA
compareEntered(a, b) == enteredTime(b) - enteredTime(a)

\* insert x after every element that does not sort after it
RECURSIVE insertSorted(_, _)
insertSorted(sorted, x) ==
    IF sorted = <<>> THEN <<x>>
    ELSE IF compareEntered(Head(sorted), x) > 0
         THEN <<x>> \o sorted
         ELSE <<Head(sorted)>> \o insertSorted(Tail(sorted), x)

\* Array.prototype.sort with the comparator (a stable sort)
RECURSIVE sortByEnteredOn(_)
sortByEnteredOn(rows) ==
    IF rows = <<>> THEN <<>>
    ELSE insertSorted(sortByEnteredOn(SubSeq(rows, 1, Len(rows) - 1)), rows[Len(rows)])

\* ---- responses ----
\* the response of a handler's catch block, sent with res.status(500)
ErrorResponse500(handler, message) ==
    IF handler = GetStatus
    THEN [NoResponse EXCEPT !.http = 500, !.status = Some("error"), !.status_label = Some("Error"),
            !.agent_message = Some("I had trouble looking up your account. How can I help you today?")]
    ELSE [NoResponse EXCEPT !.http = 500, !.error = Some(message)]

\* the response of a handler's catch block
ErrorResponse(handler, message) ==
    IF handler = GetStatus
    THEN [NoResponse EXCEPT !.status = Some("error"), !.status_label = Some("Error"),
            !.agent_message = Some("I had trouble looking up your account. How can I help you today?")]
    ELSE [NoResponse EXCEPT !.error = Some(message)]

\* the response when the query returns no row
NotFoundResponse(handler) ==
    IF handler = GetStatus
    THEN [NoResponse EXCEPT !.status = Some("unknown"), !.status_label = Some("Unknown Caller"),
            !.agent_message = Some("Customer not found in our system")]
    ELSE IF handler = StatusById
    THEN [NoResponse EXCEPT !.error = Some("Customer not found")]
    ELSE [NoResponse EXCEPT !.message = Some("Customer not found")]

\* the response when a required input is missing
MissingInputResponse(handler) ==
    IF handler = GetStatus
    THEN [NoResponse EXCEPT !.status = Some("unknown"), !.agent_message = Some("No phone number provided")]
    ELSE IF handler = StatusById
    THEN [NoResponse EXCEPT !.error = Some("vac_id is required")]
    ELSE IF handler = PhoneLookup
    THEN [NoResponse EXCEPT !.message = Some("Phone number required")]
    ELSE [NoResponse EXCEPT !.error = Some("vac_id or phone_number required")]

\* the disambiguation response of GET /api/customer/status
MultipleResponse(sorted) ==
    [NoResponse EXCEPT
        !.found = TRUE, !.multiple_records = TRUE, !.record_count = Some(Len(sorted)),
        !.status = Some("verification_needed"), !.status_label = Some("Multiple Packages"),
        !.agent_message = Some("Are you calling about your package to ${dest}?"),
        !.all_records = Some([i \in 1..Len(sorted) |->
                                [index |-> i - 1, vac_id |-> sorted[i].vac_id,
                                 pkg_code2 |-> sorted[i].pkg_code2,
                                 val_entered_on |-> sorted[i].val_entered_on]]),
        !.most_recent = Some([vac_id |-> sorted[1].vac_id, pkg_code2 |-> sorted[1].pkg_code2])]

\* the response of POST /api/rims/phone-lookup
LookupResponse(sorted) ==
    [NoResponse EXCEPT
        !.found = TRUE, !.vac_id = Some(sorted[1].vac_id),
        !.all_records = Some([i \in 1..Len(sorted) |->
                                [vac_id |-> sorted[i].vac_id, pkg_code2 |-> sorted[i].pkg_code2]])]

\* the full status response
StatusResponse(c, info, p) ==
    [NoResponse EXCEPT
        !.found = TRUE, !.status = Some(info.status), !.status_label = Some(info.statusLabel),
        !.agent_message = Some(info.agentMessage), !.vac_id = Some(c.vac_id),
        !.deposits = Some(info.deposits), !.package = p]

\* ---- the handlers after an await ----
\* determineStatus and the response, once the package lookup has returned p
FinishStatus(rq, p, t) ==
    Respond([rq EXCEPT !.determined = TRUE], StatusResponse(rq.customer[1], determineStatus(rq.customer[1], p, t), p))

\* getPackageFromDestsel(code) up to its first await: null without a query when
\* there is no code, else the destsel query
StartPackageLookup(rq, code, t) ==
    IF ~TruthyStr(code)
    THEN FinishStatus(rq, Null, t)
    ELSE [rq EXCEPT !.lookup = "started", !.stage = "package", !.pc = "getToken"]

\* `customer.pkg_code2 || pkg_code2`
CodeOrParam(c, param) == IF TruthyStr(c.pkg_code2) THEN c.pkg_code2 ELSE param

\* the handler after the customer query has returned rows
HandleCustomers(rq, rows, t) ==
    LET got == [rq EXCEPT !.results = rows]
    IN  IF rows = <<>> THEN Respond(got, NotFoundResponse(rq.handler))
        ELSE IF rq.handler = GetStatus
        THEN LET sorted == sortByEnteredOn(rows)
             IN  IF Len(sorted) > 1
                 THEN Respond(got, MultipleResponse(sorted))
                 ELSE StartPackageLookup([got EXCEPT !.customer = Some(sorted[1])],
                                         sorted[1].pkg_code2, t)
        ELSE IF rq.handler = PhoneLookup
        THEN Respond(got, LookupResponse(sortByEnteredOn(rows)))
        ELSE StartPackageLookup([got EXCEPT !.customer = Some(rows[1])],
                                CodeOrParam(rows[1], rq.pkg_code2), t)

\* getPackageFromDestsel after the destsel query has returned rows
HandlePackage(rq, rows, t) ==
    IF Len(rows) > 0
    THEN FinishStatus([rq EXCEPT !.lookup = "found"],
                      Some(PackageOf(OrZero(rows[1].ref_dep), OrZero(rows[1].deposit))), t)
    ELSE FinishStatus([rq EXCEPT !.lookup = "none"], Null, t)

\* the handler's catch block
HandlerCatch(rq, message) ==
    Respond([rq EXCEPT !.error = Some(message)], ErrorResponse(rq.handler, message))

\* the package lookup letting the error reach the handler's catch block
PackageLookupThrows(rq, message, t) ==
    HandlerCatch([rq EXCEPT !.lookup = "failed"], message)

\* the catch block of getPackageFromDestsel: log and return null
PackageLookupCatch(rq, message, t) ==
    FinishStatus([rq EXCEPT !.lookup = "failed"], Null, t)

\* an error thrown by getCaspioToken or queryCaspioTable reaches the nearest catch
Throw(rq, message, t) ==
    IF rq.stage = "package" THEN PackageLookupCatch(rq, message, t)
    ELSE IF rq.stage = "customers" THEN HandlerCatch(rq, message)
    ELSE [IdleRequest EXCEPT !.stage = "query", !.pc = "done", !.error = Some(message)]

\* ---- actions ----
\* a request arrives (the one before it has been answered): the handler validates its
\* inputs and starts the customer query
Receive(r) ==
    /\ req[r].pc \in {"idle", "done"}
    /\ \E h \in Handlers, phone \in {Null, Some("8055551234")}, vac \in {Null, Some(1)},
          code \in {Null, Some(<<"E","Z","B">>)} :
         /\ h \in {GetStatus, PhoneLookup} => vac = Null /\ code = Null
         /\ h = StatusById => phone = Null
         /\ h = PhoneLookup => code = Null
         /\ LET rq == [IdleRequest EXCEPT !.handler = h, !.phone = phone, !.vac_id = vac,
                                          !.pkg_code2 = code]
                missing == IF h \in {GetStatus, PhoneLookup} THEN phone = Null
                           ELSE IF h = StatusById THEN vac = Null
                           ELSE vac = Null /\ phone = Null
            IN  req' = [req EXCEPT ![r] =
                          IF missing THEN Respond(rq, MissingInputResponse(h))
                          ELSE [rq EXCEPT !.stage = "customers", !.pc = "getToken"]]
    /\ UNCHANGED <<caspioToken, tokenExpiry, now, exchanges>>
    /\ UNCHANGED engineVars

\* getCaspioToken up to its first await: the cached token, or the exchange is sent
GetToken(r) ==
    /\ req[r].pc = "getToken"
    /\ req' = [req EXCEPT ![r] =
                 IF CacheValid(caspioToken, tokenExpiry, now)
                 THEN [@ EXCEPT !.token = caspioToken, !.exchanged = 0, !.pc = "queryFetch"]
                 ELSE [@ EXCEPT !.token = Null, !.exchanged = 1, !.pc = "tokenFetch"]]
    /\ UNCHANGED <<caspioToken, tokenExpiry, now, exchanges>>
    /\ UNCHANGED engineVars

\* the exchange responds with a non-success status: getCaspioToken throws
TokenFails(r) ==
    /\ req[r].pc = "tokenFetch"
    /\ req' = [req EXCEPT ![r] = Throw([@ EXCEPT !.data = Null], "Caspio auth failed", now)]
    /\ UNCHANGED <<caspioToken, tokenExpiry, now, exchanges>>
    /\ UNCHANGED engineVars

\* the exchange responds with a token and its expires_in
TokenResponds(r) ==
    /\ req[r].pc = "tokenFetch"
    /\ Len(exchanges) < MaxExchanges
    /\ \E ttl \in ExpiresIn :
         LET d == [access_token |-> Len(exchanges) + 1, expires_in |-> ttl]
         IN  /\ exchanges' = Append(exchanges, d)
             /\ req' = [req EXCEPT ![r] = [@ EXCEPT !.data = Some(d), !.pc = "tokenJson"]]
    /\ UNCHANGED <<caspioToken, tokenExpiry, now>>
    /\ UNCHANGED engineVars

\* the store keeping the later of the cached expiry and the new one
TokenStoreKeepsLaterExpiry(r) ==
    /\ req[r].pc = "tokenJson"
    /\ caspioToken' = Some(req[r].data[1].access_token)
    /\ tokenExpiry' = Some(Max(OrZero(tokenExpiry), ExpiryOf(now, req[r].data[1])))
    /\ req' = [req EXCEPT ![r] = [@ EXCEPT !.token = caspioToken', !.data = Null, !.pc = "queryFetch"]]
    /\ UNCHANGED <<now, exchanges>>
    /\ UNCHANGED engineVars

\* response.json() resolves: the token and its expiry are stored and the token returned
TokenStore(r) ==
    /\ req[r].pc = "tokenJson"
    /\ caspioToken' = Some(req[r].data[1].access_token)
    /\ tokenExpiry' = Some(ExpiryOf(now, req[r].data[1]))
    /\ req' = [req EXCEPT ![r] = [@ EXCEPT !.token = caspioToken', !.data = Null, !.pc = "queryFetch"]]
    /\ UNCHANGED <<now, exchanges>>
    /\ UNCHANGED engineVars

\* the table query responds with a non-success status: queryCaspioTable throws
QueryFails(r) ==
    /\ req[r].pc = "queryFetch"
    /\ req' = [req EXCEPT ![r] = Throw(@, "Caspio query failed", now)]
    /\ UNCHANGED <<caspioToken, tokenExpiry, now, exchanges>>
    /\ UNCHANGED engineVars

\* the customer query returns its rows
CustomersReturned(r) ==
    /\ req[r].pc = "queryFetch" /\ req[r].stage = "customers"
    /\ \E rows \in CustomerResults : req' = [req EXCEPT ![r] = HandleCustomers(@, rows, now)]
    /\ UNCHANGED <<caspioToken, tokenExpiry, now, exchanges>>
    /\ UNCHANGED engineVars

\* the destsel query returns its rows
PackageReturned(r) ==
    /\ req[r].pc = "queryFetch" /\ req[r].stage = "package"
    /\ \E rows \in PackageResults : req' = [req EXCEPT ![r] = HandlePackage(@, rows, now)]
    /\ UNCHANGED <<caspioToken, tokenExpiry, now, exchanges>>
    /\ UNCHANGED engineVars

\* time passes
Tick ==
    /\ now < NowSeconds + MaxTicks * ClockStep
    /\ now' = now + ClockStep
    /\ UNCHANGED <<caspioToken, tokenExpiry, exchanges, req>>
    /\ UNCHANGED engineVars

\* a caller of queryCaspioTable outside the handlers (again, once its last call is over)
Call(r) ==
    /\ req[r].pc \in {"idle", "done"}
    /\ req' = [req EXCEPT ![r] = [IdleRequest EXCEPT !.stage = "query", !.pc = "getToken"]]
    /\ UNCHANGED <<caspioToken, tokenExpiry, now, exchanges>>
    /\ UNCHANGED engineVars

\* queryCaspioTable returns data.Result to that caller
QueryReturned(r) ==
    /\ req[r].pc = "queryFetch" /\ req[r].stage = "query"
    /\ req' = [req EXCEPT ![r] = [IdleRequest EXCEPT !.stage = "query", !.pc = "done"]]
    /\ UNCHANGED <<caspioToken, tokenExpiry, now, exchanges>>
    /\ UNCHANGED engineVars

EngineIdle ==
    customer = BlankRecord /\ packageInfo = Null /\ statusInfo = Null /\ returned = {}

\* the server answering one request after another
Init == EngineIdle /\ ServerIdle

Next ==
    \/ \E r \in DOMAIN req : Receive(r)
    \/ \E r \in DOMAIN req : GetToken(r)
    \/ \E r \in DOMAIN req : TokenFails(r)
    \/ \E r \in DOMAIN req : TokenResponds(r)
    \/ \E r \in DOMAIN req : TokenStore(r)
    \/ \E r \in DOMAIN req : QueryFails(r)
    \/ \E r \in DOMAIN req : CustomersReturned(r)
    \/ \E r \in DOMAIN req : PackageReturned(r)
    \/ Tick

Spec == Init /\ [][Next]_vars

\* the token cache under concurrent callers of queryCaspioTable
InitCache == EngineIdle /\ CacheEmpty /\ req = [r \in 1..MaxCallers |-> IdleRequest]

NextCache ==
    \/ \E r \in DOMAIN req : Call(r)
    \/ \E r \in DOMAIN req : GetToken(r)
    \/ \E r \in DOMAIN req : TokenFails(r)
    \/ \E r \in DOMAIN req : TokenResponds(r)
    \/ \E r \in DOMAIN req : TokenStore(r)
    \/ \E r \in DOMAIN req : QueryFails(r)
    \/ \E r \in DOMAIN req : QueryReturned(r)
    \/ Tick

SpecCache == InitCache /\ [][NextCache]_vars

(***************************************************************************)
(* The status engine as a state machine: a call of determineStatus on the  *)
(* record at hand, then the next call.                                     *)
(***************************************************************************)
InitStatus ==
    /\ \E in \in RuleInputs \cup DepositInputs \cup ChannelInputs :
          customer = in[1] /\ packageInfo = in[2]
    /\ statusInfo = Null
    /\ returned = {}
    /\ ServerIdle

InitDeposits ==
    /\ \E in \in DepositInputs : customer = in[1] /\ packageInfo = in[2]
    /\ statusInfo = Null
    /\ returned = {}
    /\ ServerIdle

\* determineStatus(customer, packageInfo)
Evaluate ==
    /\ statusInfo = Null
    /\ statusInfo' = Some(determineStatus(customer, packageInfo, NowSeconds))
    /\ returned' = returned \cup {statusInfo'[1].status}
    /\ UNCHANGED <<customer, packageInfo>>
    /\ UNCHANGED serverVars

\* the next call is on one of the scenario records
NextRecord ==
    /\ statusInfo # Null
    /\ \E in \in Scenarios : customer' = in[1] /\ packageInfo' = in[2]
    /\ statusInfo' = Null
    /\ UNCHANGED returned
    /\ UNCHANGED serverVars

\* a further payment is recorded in val_dep or conf_deposit and the record is evaluated again
IncreasePaid ==
    /\ statusInfo # Null
    /\ \E f \in {"val_dep", "conf_deposit"} :
         \E n \in (OrZero(customer[f]) + 1)..MaxPaid :
            customer' = [customer EXCEPT ![f] = Some(n)]
    /\ statusInfo' = Some(determineStatus(customer', packageInfo, NowSeconds))
    /\ returned' = returned \cup {statusInfo'[1].status}
    /\ UNCHANGED packageInfo
    /\ UNCHANGED serverVars

NextStatus == Evaluate \/ NextRecord
NextDeposits == Evaluate \/ IncreasePaid

SpecStatus == InitStatus /\ [][NextStatus]_vars
SpecDeposits == InitDeposits /\ [][NextDeposits]_vars

(***************************************************************************)
(* Properties of the status engine                                         *)
(***************************************************************************)
Result == statusInfo[1]
Evaluated == statusInfo # Null

\* C1: a record with cash_back_amt > 0 and no final-document date is always
\* 'Refund Pending', whatever its other fields and whatever the package info.
C1_RefundPending ==
    (Evaluated /\ customer.cash_back_amt # Null /\ customer.cash_back_amt[1] > 0
        /\ customer.Fnl_Doc_MO_Date = Null)
    => Result.status = "Refund Pending"

\* C1 witness: 'Refund Pending' for a record that travelled more than a week ago,
\* with a rep, both bookings and a known package
C1_Witness ==
    /\ Evaluated /\ Result.status = "Refund Pending"
    /\ Result.daysUntilTravel = Some(-8) /\ customer.tm = Some(<<"B", "o">>)
    /\ customer.date_htl_book # Null /\ customer.date_agncy_book # Null
    /\ customer.date_print_enc # Null /\ packageInfo # Null

StatusCodes ==
    { "Refund Pending", "Trip Complete", "Travel Pending", "Booking Pending",
      "Travel Rep Assigned", "Waiting For Travel Rep", "Ready to Schedule",
      "Dates Scheduled", "Scheduled Not Confirmed - Must Reschedule",
      "Scheduled Not Confirmed - Can Confirm", "Deposit Needed" }

\* C2 as stated: every call returns one status code and the codes ever returned
\* number at most 10.
C2_TenCodes ==
    /\ Evaluated => Result.status \in returned
    /\ Cardinality(returned) <= 10

\* C2 amended: every call returns one status code, and the codes ever returned are
\* among 11: the ten rules' codes, rule 9 having two.
C2_ElevenCodes ==
    /\ Evaluated => Result.status \in returned
    /\ returned \subseteq StatusCodes
    /\ Cardinality(StatusCodes) = 11

\* C2 witness: all eleven codes have been returned
C2_Witness == returned = StatusCodes /\ Cardinality(returned) = 11

\* C3: recording a larger val_dep or conf_deposit on an evaluated record never
\* turns deposits.complete from true to false (package info unchanged).
C3_Monotonic ==
    [][ (Evaluated /\ statusInfo' # Null /\ packageInfo' = packageInfo
            /\ Result.deposits.complete)
        => statusInfo'[1].deposits.complete ]_vars

\* C3 witness: a payment has been recorded that completed the deposits through the
\* single-deposit branch, with the total still short of the expected total
C3_Witness ==
    /\ Evaluated /\ Cardinality(returned) = 2
    /\ Result.deposits.complete /\ Result.deposits.remaining # Null
    /\ Result.deposits.remaining[1] > 0

\* C9 as stated: 'Travel Pending' only with both bookings set and 0 <= d <= 14.
C9_TravelPendingFromToday ==
    (Evaluated /\ Result.status = "Travel Pending")
    => /\ customer.date_htl_book # Null /\ customer.date_agncy_book # Null
       /\ Result.daysUntilTravel # Null
       /\ 0 <= Result.daysUntilTravel[1] /\ Result.daysUntilTravel[1] <= 14

\* C9 amended: 'Travel Pending' only with both bookings set and -7 <= d <= 14.
C9_TravelPendingWindow ==
    (Evaluated /\ Result.status = "Travel Pending")
    => /\ customer.date_htl_book # Null /\ customer.date_agncy_book # Null
       /\ Result.daysUntilTravel # Null
       /\ -7 <= Result.daysUntilTravel[1] /\ Result.daysUntilTravel[1] <= 14

\* C9 witness: 'Travel Pending' for a travel date seven days ago
C9_Witness ==
    Evaluated /\ Result.status = "Travel Pending" /\ Result.daysUntilTravel = Some(-7)

PhoneCodes == { <<"E","M">>, <<"E","S">>, <<"E","X","A">>, <<"E","Z","B">> }
OnlineCodes == { <<"E","C","R","A">> }

\* C10: a record with no travel date, no final-document date, no positive cash-back
\* amount and complete deposits is 'Ready to Schedule', and for a phone-scheduling
\* code that is not an online code the message offers the transfer to scheduling.
C10_ReadyToSchedule ==
    (Evaluated /\ customer.asgn_trv_dt = Null /\ customer.Fnl_Doc_MO_Date = Null
        /\ ~(customer.cash_back_amt # Null /\ customer.cash_back_amt[1] > 0)
        /\ Result.deposits.complete)
    => /\ Result.status = "Ready to Schedule"
       /\ (customer.pkg_code2 # Null /\ customer.pkg_code2[1] \in PhoneCodes \ OnlineCodes)
          => Result.agentMessage = "Great news! Your deposit is all paid up and you are ready to select your travel dates. Would you like me to transfer you to scheduling?"

\* C10 witness: package EZB, val_dep and the required ref_dep equal, conf_deposit and
\* the required deposit 0, no travel date: the transfer is offered
C10_Witness ==
    /\ Evaluated /\ customer.pkg_code2 = Some(<<"E","Z","B">>)
    /\ customer.val_dep = Some(1) /\ customer.conf_deposit = Some(0)
    /\ packageInfo = Some(PackageOf(1, 0)) /\ customer.asgn_trv_dt = Null
    /\ Result.status = "Ready to Schedule"
    /\ Result.agentMessage = "Great news! Your deposit is all paid up and you are ready to select your travel dates. Would you like me to transfer you to scheduling?"

\* a rep name that is absent, empty or made of spaces only
BlankName(tm) == tm = Null \/ \A i \in 1..Len(tm[1]) : tm[1][i] = " "
PositiveCashBack == customer.cash_back_amt # Null /\ customer.cash_back_amt[1] > 0

\* C11: a record with complete deposits, a travel date more than 75 days out, a blank
\* or whitespace-only rep name, conf_valid_code 'CONFIRM', no final-document date and
\* no positive cash-back amount is 'Dates Scheduled', whatever its itinerary-print,
\* hotel-booked, agency-booked and decision-ready fields.
C11_DatesScheduled ==
    (Evaluated /\ Result.deposits.complete
        /\ customer.asgn_trv_dt # Null /\ customer.asgn_trv_dt[1] >= DateAt(76, 0)
        /\ BlankName(customer.tm) /\ customer.conf_valid_code = Some("CONFIRM")
        /\ customer.Fnl_Doc_MO_Date = Null /\ ~PositiveCashBack)
    => Result.status = "Dates Scheduled"

\* C11 witness: 'Dates Scheduled' 100 days out for a rep name of one space, with the
\* itinerary printed, both bookings made and decReady true
C11_Witness ==
    /\ Evaluated /\ Result.status = "Dates Scheduled"
    /\ Result.daysUntilTravel = Some(100) /\ customer.tm = Some(<<" ">>)
    /\ customer.date_print_enc # Null /\ customer.date_htl_book # Null
    /\ customer.date_agncy_book # Null /\ customer.decReady = Some(TRUE)

\* C12: the comparisons of daysUntilTravel against 75 in rules 8 and 9 are evaluated
\* only for records whose travel date is set, so daysUntilTravel is not null there.
C12_ComparedWithTravelDate ==
    (/\ Evaluated
     /\ \/ comparesInRule8(customer, Result.deposits.complete, Result.daysUntilTravel)
        \/ comparesInRule9(customer, Result.deposits.complete, Result.daysUntilTravel))
    => customer.asgn_trv_dt # Null /\ Result.daysUntilTravel # Null

\* C12 witness: rule 9 compared a travel date 75 days out with deposits pending
C12_Witness ==
    /\ Evaluated /\ ~Result.deposits.complete
    /\ comparesInRule9(customer, Result.deposits.complete, Result.daysUntilTravel)
    /\ Result.daysUntilTravel = Some(75)
    /\ Result.status = "Scheduled Not Confirmed - Must Reschedule"

\* C13: whenever determineStatus returns 'Deposit Needed', deposits.complete is
\* false: no record with complete deposits falls through rules 1-9 to the default.
C13_DepositNeededIncomplete ==
    (Evaluated /\ Result.status = "Deposit Needed") => ~Result.deposits.complete

NonNegative(amount) == amount = Null \/ amount[1] >= 0

\* C14: for non-negative paid amounts and a known package (total_expected = ref_dep +
\* deposit, both non-negative), deposits.complete is true exactly when
\* deposits.remaining is 0.
C14_CompleteIffNothingRemains ==
    (Evaluated /\ NonNegative(customer.val_dep) /\ NonNegative(customer.conf_deposit)
        /\ packageInfo # Null)
    => (Result.deposits.complete <=> Result.deposits.remaining = Some(0))

\* C14 witness: only ref_dep is required (2), 1 is paid in val_dep and nothing in
\* conf_deposit: the single-deposit branch is taken and leaves the record incomplete
C14_Witness ==
    /\ Evaluated /\ packageInfo = Some(PackageOf(2, 0))
    /\ customer.val_dep = Some(1) /\ customer.conf_deposit = Some(0)
    /\ ~Result.deposits.complete /\ Result.deposits.remaining = Some(1)

(***************************************************************************)
(* Properties of the handlers and of the token cache                       *)
(***************************************************************************)
Answered(q) == q.pc = "done" /\ q.response # Null
FallbackLine == "I had trouble looking up your account. How can I help you today?"

\* a lookup by phone number in a handler that can return a status
StatusByPhone(q) ==
    \/ q.handler = GetStatus
    \/ q.handler = RimsStatus /\ q.phone # Null /\ q.vac_id = Null

\* C4: in GET /api/customer/status and in POST /api/rims/customer-status called with
\* phone_number and no vac_id, a query returning more than one record is answered
\* with the disambiguation response, and neither the package lookup nor
\* determineStatus runs for that request.
C4_Disambiguation ==
    \A r \in DOMAIN req :
        (Answered(req[r]) /\ StatusByPhone(req[r]) /\ Len(req[r].results) > 1)
        => /\ req[r].response[1].multiple_records
           /\ req[r].response[1].status = Some("verification_needed")
           /\ req[r].lookup = ""
           /\ ~req[r].determined

\* a is strictly more recent than b, a missing val_entered_on being the earliest
MoreRecent(a, b) ==
    /\ a.val_entered_on # Null
    /\ b.val_entered_on = Null \/ b.val_entered_on[1] < a.val_entered_on[1]

\* C5: when GET /api/customer/status finds two or more records, all_records lists
\* every returned record exactly once, no record before a more recent one (a record
\* without val_entered_on being the earliest), and most_recent is its first element.
C5_MostRecentFirst ==
    \A r \in DOMAIN req :
        (Answered(req[r]) /\ req[r].handler = GetStatus /\ Len(req[r].results) >= 2)
        => /\ req[r].response[1].all_records # Null
           /\ LET rows == req[r].results
                  all  == req[r].response[1].all_records[1]
              IN  /\ Len(all) = Len(rows)
                  /\ \A i \in 1..Len(rows) :
                        Cardinality({ j \in 1..Len(all) : all[j].vac_id = rows[i].vac_id }) = 1
                  /\ \A i, j \in 1..Len(all) : i < j => ~MoreRecent(all[j], all[i])
                  /\ req[r].response[1].most_recent # Null
                  /\ req[r].response[1].most_recent[1].vac_id = all[1].vac_id

\* C5 witness: the query returned the record without val_entered_on first and a dated
\* record second; the response lists the dated record first
C5_Witness ==
    \E r \in DOMAIN req :
        /\ Answered(req[r]) /\ req[r].handler = GetStatus /\ Len(req[r].results) = 2
        /\ req[r].results[1].val_entered_on = Null /\ req[r].results[2].val_entered_on # Null
        /\ req[r].response[1].all_records[1][1].vac_id = req[r].results[2].vac_id
        /\ req[r].response[1].all_records[1][2].vac_id = req[r].results[1].vac_id

\* C6 as stated: in every handler, a failed token exchange or customer query is
\* answered 200 with found:false and the fallback agent line.
C6_FallbackEverywhere ==
    \A r \in DOMAIN req :
        (Answered(req[r]) /\ req[r].error # Null)
        => /\ req[r].response[1].http = 200
           /\ ~req[r].response[1].found
           /\ req[r].response[1].agent_message = Some(FallbackLine)

\* C6 amended: in every handler, a failed token exchange or customer query is answered
\* 200 with found:false; GET /api/customer/status carries the fallback agent line, the
\* three POST handlers carry the error's message in `error` and no agent line.
C6_FailureAnswered ==
    \A r \in DOMAIN req :
        (Answered(req[r]) /\ req[r].error # Null)
        => /\ req[r].response[1].http = 200
           /\ ~req[r].response[1].found
           /\ IF req[r].handler = GetStatus
              THEN req[r].response[1].agent_message = Some(FallbackLine)
              ELSE /\ req[r].response[1].agent_message = Null
                   /\ req[r].response[1].error = req[r].error

\* C6 witness: POST /api/rims/phone-lookup has answered a failed token exchange with
\* found:false and the error's message
C6_Witness ==
    \E r \in DOMAIN req :
        /\ Answered(req[r]) /\ req[r].error = Some("Caspio auth failed")
        /\ req[r].handler = PhoneLookup /\ req[r].response[1].error = Some("Caspio auth failed")
        /\ ~req[r].response[1].found

\* C7: when the customer query returned a single record and the package lookup then
\* failed, the request is answered found:true with the status and deposits of
\* determineStatus(customer, null); the handler's catch block is not reached.
C7_LookupFailureSwallowed ==
    \A r \in DOMAIN req :
        (Answered(req[r]) /\ Len(req[r].results) = 1 /\ req[r].lookup = "failed")
        => /\ req[r].response[1].found
           /\ req[r].error = Null
           /\ req[r].response[1].package = Null
           /\ LET info == determineStatus(req[r].results[1], Null, now)
              IN  /\ req[r].response[1].status = Some(info.status)
                  /\ req[r].response[1].deposits = Some(info.deposits)

\* C7 witness: the lookup for package EM failed (a package whose required deposit the
\* record would not cover) and the answer is 'Ready to Schedule'
C7_Witness ==
    \E r \in DOMAIN req :
        /\ Answered(req[r]) /\ Len(req[r].results) = 1 /\ req[r].lookup = "failed"
        /\ req[r].results[1].pkg_code2 = Some(<<"E","M">>)
        /\ req[r].response[1].status = Some("Ready to Schedule")

\* C8: getCaspioToken returns the cached token without an exchange whenever a token is
\* cached and now < tokenExpiry; otherwise it performs exactly one exchange and, on
\* success, stores the new token with expiry = (time of storing) + TTL - 60 s and
\* returns that token.
C8_TokenCache ==
    [][ \A r \in DOMAIN req :
          LET valid == caspioToken # Null /\ tokenExpiry # Null /\ now < tokenExpiry[1]
          IN  /\ (req[r].pc = "getToken" /\ req'[r].pc # "getToken")
                 => IF valid
                    THEN /\ req'[r].pc = "queryFetch"
                         /\ req'[r].token = caspioToken
                         /\ req'[r].exchanged = 0
                         /\ UNCHANGED <<caspioToken, tokenExpiry, exchanges>>
                    ELSE /\ req'[r].pc = "tokenFetch"
                         /\ req'[r].exchanged = 1
              /\ req[r].pc \in {"tokenFetch", "tokenJson"} => req[r].exchanged = 1
              /\ (req[r].pc = "tokenJson" /\ req'[r].pc # "tokenJson")
                 => /\ req'[r].pc = "queryFetch"
                    /\ req'[r].exchanged = 1
                    /\ caspioToken' = Some(req[r].data[1].access_token)
                    /\ tokenExpiry' = Some(now + req[r].data[1].expires_in - 60)
                    /\ req'[r].token = caspioToken'
      ]_vars

\* C8 witness: after time has passed, one caller holds the token from the cache and
\* another the token of its own exchange
C8_Witness ==
    \E r1, r2 \in DOMAIN req :
        /\ now > NowSeconds
        /\ req[r1].pc = "queryFetch" /\ req[r1].exchanged = 0 /\ req[r1].token = caspioToken
        /\ req[r2].pc = "queryFetch" /\ req[r2].exchanged = 1 /\ req[r2].token = caspioToken

\* the cache holds the token of exchange k with an expiry computed from that exchange's
\* expires_in at some time up to now
HoldsExchange(k) ==
    /\ caspioToken = Some(exchanges[k].access_token)
    /\ \E t \in NowSeconds..now :
          tokenExpiry = Some(t + exchanges[k].expires_in - 60)

\* a caller's exchange fails in this step
ExchangeFails(r) ==
    /\ req[r].pc = "tokenFetch" /\ req'[r].pc = "done"
    /\ req'[r].error = Some("Caspio auth failed")

\* C15: under every interleaving of concurrent getCaspioToken calls and every mix of
\* successful and failed exchanges, the cache is either empty or holds a token with
\* the expiry computed from the response that produced that token: the two are only
\* ever written together, from one response; a failed exchange leaves both unchanged.
C15_CacheConsistent ==
    /\ [](\/ caspioToken = Null /\ tokenExpiry = Null
          \/ \E k \in 1..Len(exchanges) : HoldsExchange(k))
    /\ [][ /\ <<caspioToken, tokenExpiry>>' # <<caspioToken, tokenExpiry>>
              => \E r \in DOMAIN req :
                    /\ req[r].pc = "tokenJson" /\ req'[r].pc # "tokenJson"
                    /\ \E k \in 1..Len(exchanges) : req[r].data = Some(exchanges[k])
                    /\ caspioToken' = Some(req[r].data[1].access_token)
                    /\ tokenExpiry' = Some(now + req[r].data[1].expires_in - 60)
           /\ \A r \in DOMAIN req :
                 ExchangeFails(r) => UNCHANGED <<caspioToken, tokenExpiry>>
       ]_vars

\* C15 witness: two exchanges overlapped and the one that started first stored last,
\* so the cache holds its token and expiry; the other caller's next exchange failed
C15_Witness ==
    \E a, b \in DOMAIN req :
        /\ a # b /\ Len(exchanges) = 2
        /\ caspioToken = Some(1) /\ HoldsExchange(1)
        /\ req[a].pc = "queryFetch" /\ req[a].token = Some(1) /\ req[a].exchanged = 1
        /\ req[b].pc = "done" /\ req[b].error = Some("Caspio auth failed")

====
